---- MODULE Spec2Model ----
(***************************************************************************)
(* Model of SSP_FINALE.py: the generator that loads the location sheet     *)
(* with pandas, cleans it, and writes locations.json, index.html, app.js   *)
(* and style2.css.                                                         *)
(*                                                                         *)
(* Strings are sequences of one-character strings, so that strip, lower,   *)
(* upper and str() are computed and not assumed.  A DataFrame is a record   *)
(* of its column labels, its index labels and its rows (positional, so two *)
(* columns may carry the same label, as in pandas).                        *)
(***************************************************************************)
EXTENDS Integers, Sequences, FiniteSets, TLC

\* ------------------------------------------------------------- bounds
\* Largest number of data rows of a source sheet.
MaxRows == 2
\* Longest category text of the category sheets.
MaxCatLen == 3
\* Largest number of rows of a sheet the site is built from.
MaxLocations == 2
\* Largest number of history entries pushed on top of the first one.
MaxHistory == 3

\* ------------------------------------------------------------- characters
LowerLetters == <<"a","b","c","d","e","f","g","h","i","j","k","l","m",
                  "n","o","p","q","r","s","t","u","v","w","x","y","z">>
UpperLetters == <<"A","B","C","D","E","F","G","H","I","J","K","L","M",
                  "N","O","P","Q","R","S","T","U","V","W","X","Y","Z">>
Digits == <<"0","1","2","3","4","5","6","7","8","9">>
Whitespace == {" ", "\t"}
\* Characters of the category texts of the category sheets.
CategoryAlphabet == {" ", "a", "N", "A", "1"}

InSeq(seq, c) == \E i \in 1..Len(seq) : seq[i] = c
IndexOf(seq, c) == CHOOSE i \in 1..Len(seq) : seq[i] = c

\* The case mappings, as tables over the letters.
ToLower == [c \in {UpperLetters[i] : i \in 1..26} |-> LowerLetters[IndexOf(UpperLetters, c)]]
ToUpper == [c \in {LowerLetters[i] : i \in 1..26} |-> UpperLetters[IndexOf(LowerLetters, c)]]
DigitSet == {Digits[i] : i \in 1..10}

lowerChar(c) == IF c \in DOMAIN ToLower THEN ToLower[c] ELSE c
upperChar(c) == IF c \in DOMAIN ToUpper THEN ToUpper[c] ELSE c

\* str.lower
lower(s) == [i \in 1..Len(s) |-> lowerChar(s[i])]

\* str.swapcase in the place of str.upper.
swapcase(s) ==
    [i \in 1..Len(s) |-> IF s[i] \in DOMAIN ToLower THEN lowerChar(s[i]) ELSE upperChar(s[i])]

\* str.upper
upper(s) == [i \in 1..Len(s) |-> upperChar(s[i])]

\* Position of the first character of s that is no whitespace, Len(s) + 1
\* if there is none.
lstrip(s) ==
    CHOOSE a \in 1..(Len(s) + 1) :
        /\ \A q \in 1..(a - 1) : s[q] \in Whitespace
        /\ a <= Len(s) => s[a] \notin Whitespace

\* Position of the last character of s that is no whitespace, 0 if there is
\* none.
rstrip(s) ==
    CHOOSE b \in 0..Len(s) :
        /\ \A q \in (b + 1)..Len(s) : s[q] \in Whitespace
        /\ b >= 1 => s[b] \notin Whitespace

\* str.strip
strip(s) == SubSeq(s, lstrip(s), rstrip(s))

\* The element of a one-element set.  The({ e(x) : x \in {v} }) is e of the
\* value of v, v computed once as the receiver of a method call is.
The(S) == CHOOSE x \in S : TRUE

\* ------------------------------------------------------------- configuration
c_display_name == <<"d","i","s","p","l","a","y"," ","n","a","m","e">>
c_name_te == <<"n","a","m","e","_","t","e">>
c_name_hi == <<"n","a","m","e","_","h","i">>
c_name_ta == <<"n","a","m","e","_","t","a">>
c_name_kn == <<"n","a","m","e","_","k","n">>
c_name_ml == <<"n","a","m","e","_","m","l">>
c_description_en == <<"d","e","s","c","r","i","p","t","i","o","n","_","e","n">>
c_description_te == <<"d","e","s","c","r","i","p","t","i","o","n","_","t","e">>
c_description_hi == <<"d","e","s","c","r","i","p","t","i","o","n","_","h","i">>
c_description_ta == <<"d","e","s","c","r","i","p","t","i","o","n","_","t","a">>
c_description_kn == <<"d","e","s","c","r","i","p","t","i","o","n","_","k","n">>
c_description_ml == <<"d","e","s","c","r","i","p","t","i","o","n","_","m","l">>
c_category == <<"c","a","t","e","g","o","r","y">>
c_latitude == <<"l","a","t","i","t","u","d","e">>
c_longitude == <<"l","o","n","g","i","t","u","d","e">>

REQUIRED_COLUMNS ==
    << c_display_name, c_name_te, c_name_hi, c_name_ta, c_name_kn, c_name_ml,
       c_description_en, c_description_te, c_description_hi, c_description_ta,
       c_description_kn, c_description_ml, c_category, c_latitude, c_longitude >>

\* The four output files under base_dir.
json_file == "locations.json"
html_file == "index.html"
js_file == "app.js"
css_file == "style2.css"
OutputFiles == {json_file, html_file, js_file, css_file}

\* ------------------------------------------------------------- cell values
\* A pandas cell: NaN, a Python str, an int or a float (n is its value; the
\* sheets of the model hold whole numbers only).
NaN == [t |-> "nan", s |-> <<>>, n |-> 0]
StrV(s) == [t |-> "str", s |-> s, n |-> 0]
IntV(n) == [t |-> "int", s |-> <<>>, n |-> n]
FloatV(n) == [t |-> "float", s |-> <<>>, n |-> n]

isna(v) == v.t = "nan"
IsNumber(v) == v.t \in {"int", "float"}

\* Texts read_csv takes for a missing value (two of pandas' default na_values).
NaTexts == { <<>>, <<"N","A">> }

IsIntText(x) == x # <<>> /\ \A i \in 1..Len(x) : x[i] \in DigitSet

RECURSIVE ParseInt(_)
ParseInt(x) == IF x = <<>> THEN 0
               ELSE 10 * ParseInt(SubSeq(x, 1, Len(x) - 1)) + (IndexOf(Digits, x[Len(x)]) - 1)

RECURSIVE IntToText(_)
IntToText(n) == IF n < 10 THEN << Digits[n + 1] >>
                ELSE Append(IntToText(n \div 10), Digits[(n % 10) + 1])

\* Python's str() of a cell value (what Series.astype(str) applies).
pyStr(v) == CASE v.t = "str" -> v.s
              [] v.t = "int" -> IntToText(v.n)
              [] v.t = "float" -> IntToText(v.n) \o <<".", "0">>
              [] OTHER -> <<"n","a","n">>

\* ------------------------------------------------------------- pd.read_csv
\* dtype read_csv infers for column j of the text rows.
InferDtype(rows, j) ==
    LET present == { i \in 1..Len(rows) : rows[i][j] \notin NaTexts }
    IN  IF Len(rows) = 0 THEN "object"
        ELSE IF \A i \in present : IsIntText(rows[i][j])
             THEN (IF present = 1..Len(rows) THEN "int64" ELSE "float64")
             ELSE "object"

ParseCell(dtype, x) ==
    IF x \in NaTexts THEN NaN
    ELSE CASE dtype = "int64" -> IntV(ParseInt(x))
           [] dtype = "float64" -> FloatV(ParseInt(x))
           [] OTHER -> StrV(x)

\* The DataFrame read_csv builds from a sheet: header labels as they are, a
\* RangeIndex, typed cells.
read_csv(src) ==
    [ columns |-> src.header,
      index   |-> [i \in 1..Len(src.rows) |-> i - 1],
      data    |-> [i \in 1..Len(src.rows) |->
                     [j \in 1..Len(src.header) |->
                        ParseCell(InferDtype(src.rows, j), src.rows[i][j])]] ]

EmptyFrame == [columns |-> <<>>, index |-> <<>>, data |-> <<>>]

\* ------------------------------------------------------------- DataFrame steps
\* df.columns.str.strip().str.lower()
NormalizeColumns(d) ==
    [d EXCEPT !.columns = [j \in 1..Len(d.columns) |->
        The({ lower(s) : s \in { strip(d.columns[j]) } })]]

\* A fillna that leaves the table as it is.
fillnaNothing(d) == d

\* df.fillna("")
fillna(d) ==
    [d EXCEPT !.data = [i \in 1..Len(d.data) |->
        [j \in 1..Len(d.data[i]) |->
            IF isna(d.data[i][j]) THEN StrV(<<>>) ELSE d.data[i][j]]]]

HasColumn(d, col) == \E j \in 1..Len(d.columns) : d.columns[j] = col

\* Positions of the columns labelled col, left to right.
RECURSIVE PositionsFrom(_, _, _)
PositionsFrom(cols, col, j) ==
    IF j > Len(cols) THEN <<>>
    ELSE (IF cols[j] = col THEN <<j>> ELSE <<>>) \o PositionsFrom(cols, col, j + 1)

Positions(d, col) == PositionsFrom(d.columns, col, 1)

\* Requirement check that looks for the first two required columns only.
MissingColumnsFirstTwo(d) ==
    SelectSeq(SubSeq(REQUIRED_COLUMNS, 1, 2), LAMBDA col : ~HasColumn(d, col))

\* Required columns absent from df, in REQUIRED_COLUMNS order.
MissingColumns(d) == SelectSeq(REQUIRED_COLUMNS, LAMBDA col : ~HasColumn(d, col))

\* A coercion that reads the empty string as 0.
CoerceOneBlankZero(v) ==
    CASE IsNumber(v) -> v
      [] v.t = "str" /\ v.s = <<>> -> IntV(0)
      [] v.t = "str" /\ IsIntText(v.s) -> IntV(ParseInt(v.s))
      [] OTHER -> NaN

\* pd.to_numeric(..., errors="coerce") of one element.
CoerceOne(v) ==
    CASE IsNumber(v) -> v
      [] v.t = "str" /\ IsIntText(v.s) -> IntV(ParseInt(v.s))
      [] OTHER -> NaN

\* A to_numeric that turns what it cannot parse into 0.
to_numericZero(series) ==
    [i \in 1..Len(series) |->
        IF isna(CoerceOne(series[i])) THEN IntV(0) ELSE CoerceOne(series[i])]

\* pd.to_numeric(series, errors="coerce"): the result is float64 as soon as
\* one element is NaN or a float, else int64.
to_numeric(series) ==
    The({ [i \in 1..Len(c) |->
              IF c[i].t = "int" /\ \E q \in 1..Len(c) : c[q].t \in {"nan", "float"}
              THEN FloatV(c[i].n) ELSE c[i]] :
          c \in { [i \in 1..Len(series) |-> CoerceOne(series[i])] } })

Column(d, j) == [i \in 1..Len(d.data) |-> d.data[i][j]]

SetColumn(d, j, series) ==
    The({ [d EXCEPT !.data = [i \in 1..Len(d.data) |-> [d.data[i] EXCEPT ![j] = s[i]]]] :
          s \in {series} })

\* A category normalization that upper-cases without trimming.
NormalizeCategoryNoStrip(series) ==
    [i \in 1..Len(series) |-> StrV(upper(pyStr(series[i])))]

\* series.astype(str).str.strip().str.upper()
NormalizeCategory(series) ==
    [i \in 1..Len(series) |->
        The({ StrV(upper(strip(s))) : s \in { pyStr(series[i]) } })]

\* Rows of df that have no NaN in any column labelled by subset.
KeptRows(d, subset) ==
    LET cols == { j \in 1..Len(d.columns) : InSeq(subset, d.columns[j]) }
    IN  SelectSeq([i \in 1..Len(d.data) |-> i],
                  LAMBDA i : \A j \in cols : ~isna(d.data[i][j]))

\* A dropna that keeps the surviving rows in reverse order.
dropnaReversed(d, subset) ==
    LET keep == KeptRows(d, subset)
        n == Len(keep)
    IN  [d EXCEPT !.index = [k \in 1..n |-> d.index[keep[n + 1 - k]]],
                  !.data  = [k \in 1..n |-> d.data[keep[n + 1 - k]]]]

\* df.dropna(subset=[...], inplace=True)
dropna(d, subset) ==
    LET keep == KeptRows(d, subset)
    IN  [d EXCEPT !.index = [k \in 1..Len(keep) |-> d.index[keep[k]]],
                  !.data  = [k \in 1..Len(keep) |-> d.data[keep[k]]]]

RECURSIVE FlattenFrom(_, _)
FlattenFrom(ss, k) == IF k > Len(ss) THEN <<>> ELSE ss[k] \o FlattenFrom(ss, k + 1)

Flatten(ss) == The({ FlattenFrom(s, 1) : s \in {ss} })

\* A projection that keeps every column of df.
ProjectAll(d, cols) == d

\* df[cols]: the columns labelled by cols, in the order of cols (every
\* column carrying a listed label is taken).
Project(d, cols) ==
    The({ [ columns |-> [k \in 1..Len(pos) |-> d.columns[pos[k]]],
            index   |-> d.index,
            data    |-> [i \in 1..Len(d.data) |-> [k \in 1..Len(pos) |-> d.data[i][pos[k]]]] ] :
          pos \in { Flatten([k \in 1..Len(cols) |-> Positions(d, cols[k])]) } })

\* A Python dict as its items in insertion order; assigning an existing key
\* replaces the value in place.  The dict of one row: a key stands where its
\* label first occurs and holds the cell under the label's last occurrence.
DictOf(cols, row) ==
    The({ [ p \in 1..Cardinality(firsts) |->
              The({ [ k |-> cols[j],
                      v |-> row[CHOOSE x \in 1..Len(cols) :
                                    /\ cols[x] = cols[j]
                                    /\ \A q \in (x + 1)..Len(cols) : cols[q] # cols[j]] ] :
                    j \in { CHOOSE x \in firsts :
                                Cardinality({ y \in firsts : y < x }) = p - 1 } }) ] :
          firsts \in { { j \in 1..Len(cols) : \A q \in 1..(j - 1) : cols[q] # cols[j] } } })

\* df.to_dict(orient="records")
to_dict(d) == [i \in 1..Len(d.data) |-> DictOf(d.columns, d.data[i])]

Keys(dict) == [p \in 1..Len(dict) |-> dict[p].k]
Get(dict, k) == dict[CHOOSE p \in 1..Len(dict) : dict[p].k = k].v

\* ------------------------------------------------------------- source sheets
\* A sheet is its header (raw labels) and its rows of cell texts; ok = FALSE is
\* a sheet that cannot be fetched or parsed at all.
\* The sheets of the model are built from a header layout, which tags every
\* column with what its cells hold, and from row kinds.
Col(name, role) == [name |-> name, role |-> role]

RoleOf(j) == CASE j = 1 -> "disp" [] j = 13 -> "cat" [] j = 14 -> "lat"
               [] j = 15 -> "lon" [] OTHER -> "text"

BaseHeader == [j \in 1..Len(REQUIRED_COLUMNS) |-> Col(REQUIRED_COLUMNS[j], RoleOf(j))]

Without(h, drop) == SelectSeq(h, LAMBDA c : c.name \notin drop)

Reverse(h) == [j \in 1..Len(h) |-> h[Len(h) + 1 - j]]

HeaderLayouts ==
    { BaseHeader,
      \* casing and spacing variants of three labels
      [BaseHeader EXCEPT ![1].name = <<"D","i","s","p","l","a","y"," ","N","a","m","e"," ">>,
                         ![13].name = <<"C","A","T","E","G","O","R","Y">>,
                         ![14].name = <<" ","L","a","t","i","t","u","d","e","\t">>],
      \* extra columns, before and after
      <<Col(<<"n","o","t","e","s">>, "extra")>> \o BaseHeader \o <<Col(<<"P","h","o","t","o">>, "extra")>>,
      \* another column order
      Reverse(BaseHeader) \o <<Col(<<"n","o","t","e","s">>, "extra")>>,
      \* missing required columns
      Without(BaseHeader, {c_description_ml}),
      Without(BaseHeader, {c_latitude}),
      Without(BaseHeader, {c_name_hi, c_category}),
      [BaseHeader EXCEPT ![15].name = <<"l","n","g">>, ![15].role = "lon"],
      \* two labels that normalize to the same required name
      BaseHeader \o <<Col(<<"L","a","t","i","t","u","d","e">>, "alt")>>,
      BaseHeader \o <<Col(<<"l","o","n","g","i","t","u","d","e"," ">>, "alt")>>,
      BaseHeader \o <<Col(<<"C","a","t","e","g","o","r","y">>, "alt")>>,
      BaseHeader \o <<Col(<<"N","a","m","e","_","t","e">>, "alt")>> }

RowKind(lat, lon, cat, text) == [lat |-> lat, lon |-> lon, cat |-> cat, text |-> text]

RowKinds ==
    { RowKind(<<"1","6">>, <<"7","8">>, <<" ","t","e","m","p","l","e"," ">>, <<"a","b","c">>),
      RowKind(<<"a","b","c">>, <<"7","8">>, <<"T","e","m","p","l","e">>, <<>>),
      RowKind(<<>>, <<>>, <<"F","O","O","D">>, <<"0","7">>),
      RowKind(<<"1","6">>, <<"N","A">>, <<"7">>, <<"N","A">>),
      RowKind(<<"0","7">>, <<"7","8">>, <<>>, <<"0","7">>),
      RowKind(<<"1","6">>, <<"7","8">>, <<"7">>, <<>>) }

\* Row i of a sheet: the display name tells the rows apart.
MakeRow(h, rk, i) ==
    [j \in 1..Len(h) |->
        CASE h[j].role = "disp" -> <<"p", Digits[i + 1]>>
          [] h[j].role = "lat" -> rk.lat
          [] h[j].role = "lon" -> rk.lon
          [] h[j].role = "cat" -> rk.cat
          [] h[j].role = "text" -> rk.text
          [] h[j].role = "alt" -> <<"z">>
          [] OTHER -> <<"e","x">>]

RowKindSeqs == UNION { [1..n -> RowKinds] : n \in 0..MaxRows }

MakeSheet(h, rks) ==
    [ ok |-> TRUE,
      header |-> [j \in 1..Len(h) |-> h[j].name],
      rows |-> [i \in 1..Len(rks) |-> MakeRow(h, rks[i], i)] ]

Unreachable == [ok |-> FALSE, header |-> <<>>, rows |-> <<>>]

Sheets == { MakeSheet(h, rks) : h \in HeaderLayouts, rks \in RowKindSeqs }

\* ------------------------------------------------------------- state
VARIABLES
    pc,         \* the statement the run is at, or "done" / "fatal"
    source,     \* what GOOGLE_SHEET_CSV_URL serves during the run
    dirExists,  \* base_dir exists
    disk,       \* the four output files
    df,         \* the DataFrame
    skipped,    \* before - len(df)
    locations,  \* df.to_dict(orient="records")
    stdout,     \* the lines printed
    err,        \* the exception that ended the run
    page        \* index.html open in a browser: app.js globals, DOM, history

vars == <<pc, source, dirExists, disk, df, skipped, locations, stdout, err, page>>

File(gen, data) == [gen |-> gen, data |-> data]
Absent == File("absent", <<>>)
Old == File("old", <<>>)

NoError == [type |-> "", col |-> <<>>]
Error(type, col) == [type |-> type, col |-> col]

\* The page as index.html and the first statements of app.js leave it: the
\* globals of lines 280-282, the inline styles of the markup, the one history
\* entry of replaceState, the fetch of locations.json under way.
InitialPage ==
    [ fetch |-> "pending",
      locationsData |-> <<>>,
      currentLang |-> <<"e","n">>,
      staticLang |-> <<"e","n">>,
      searchQuery |-> <<>>,
      inputValue |-> <<>>,
      clearDisplay |-> "none",
      heroDisplay |-> "",
      appDisplay |-> "",
      searchResultsDisplay |-> "none",
      freeBtn |-> 0,
      sections |-> <<>>,
      ulOpen |-> {},
      divOpen |-> {},
      searchList |-> <<>>,
      searchOpen |-> {},
      historyIndex |-> 0,
      historyLen |-> 1,
      uncaught |-> "" ]

\* Before the run: there is no output directory yet, or it holds an earlier
\* run's files.
InitWith(sheets) ==
    /\ pc = "mkdir"
    /\ source \in sheets
    /\ \/ disk = [f \in OutputFiles |-> Absent] /\ dirExists = FALSE
       \/ disk = [f \in OutputFiles |-> Old] /\ dirExists = TRUE
    /\ df = EmptyFrame
    /\ skipped = 0
    /\ locations = <<>>
    /\ stdout = <<>>
    /\ err = NoError
    /\ page = InitialPage

Init == InitWith(Sheets \cup {Unreachable})

\* ------------------------------------------------------------- the run
Raise(e) == pc' = "fatal" /\ err' = e

\* base_dir.mkdir(parents=True, exist_ok=True)
MkDir ==
    /\ pc = "mkdir"
    /\ dirExists' = TRUE
    /\ pc' = "read_csv"
    /\ UNCHANGED <<page, source, disk, df, skipped, locations, stdout, err>>

\* df = pd.read_csv(GOOGLE_SHEET_CSV_URL)
ReadCsv ==
    /\ pc = "read_csv"
    /\ source.ok
    /\ df' = read_csv(source)
    /\ pc' = "normalize_columns"
    /\ UNCHANGED <<page, source, dirExists, disk, skipped, locations, stdout, err>>

\* A fetch failure that is swallowed: the run goes on with an empty table.
ReadCsvSwallows ==
    /\ pc = "read_csv"
    /\ ~source.ok
    /\ df' = EmptyFrame
    /\ pc' = "normalize_columns"
    /\ UNCHANGED <<page, source, dirExists, disk, skipped, locations, stdout, err>>

\* A fetch failure that is retried: the run starts over.
ReadCsvRetries ==
    /\ pc = "read_csv"
    /\ ~source.ok
    /\ pc' = "mkdir"
    /\ UNCHANGED <<page, source, dirExists, disk, df, skipped, locations, stdout, err>>

\* pd.read_csv raises (URLError, HTTPError, ParserError, EmptyDataError)
ReadCsvRaises ==
    /\ pc = "read_csv"
    /\ ~source.ok
    /\ Raise(Error("ReadError", <<>>))
    /\ UNCHANGED <<page, source, dirExists, disk, df, skipped, locations, stdout>>

\* df.columns = df.columns.str.strip().str.lower()
NormalizeColumnsStep ==
    /\ pc = "normalize_columns"
    /\ df' = NormalizeColumns(df)
    /\ pc' = "fillna"
    /\ UNCHANGED <<page, source, dirExists, disk, skipped, locations, stdout, err>>

\* df = df.fillna("")
FillNa ==
    /\ pc = "fillna"
    /\ df' = fillna(df)
    /\ pc' = "check_columns"
    /\ UNCHANGED <<page, source, dirExists, disk, skipped, locations, stdout, err>>

\* for col in REQUIRED_COLUMNS: if col not in df.columns: raise ValueError(...)
CheckColumns ==
    /\ pc = "check_columns"
    /\ MissingColumns(df) = <<>>
    /\ pc' = "latitude"
    /\ UNCHANGED <<page, source, dirExists, disk, df, skipped, locations, stdout, err>>

CheckColumnsRaises ==
    /\ pc = "check_columns"
    /\ MissingColumns(df) # <<>>
    /\ Raise(Error("ValueError", Head(MissingColumns(df))))
    /\ UNCHANGED <<page, source, dirExists, disk, df, skipped, locations, stdout>>

\* df[col] is a Series when one column carries the label, a DataFrame when
\* several do.
IsSeries(d, col) == Len(Positions(d, col)) = 1

\* df[col] = pd.to_numeric(df[col], errors="coerce"), for a Series
CoerceColumn(d, col) ==
    The({ SetColumn(d, j, to_numeric(Column(d, j))) : j \in { Positions(d, col)[1] } })

LatitudeToNumeric ==
    /\ pc = "latitude"
    /\ IsSeries(df, c_latitude)
    /\ df' = CoerceColumn(df, c_latitude)
    /\ pc' = "longitude"
    /\ UNCHANGED <<page, source, dirExists, disk, skipped, locations, stdout, err>>

\* pd.to_numeric of a DataFrame raises TypeError
LatitudeToNumericRaises ==
    /\ pc = "latitude"
    /\ ~IsSeries(df, c_latitude)
    /\ Raise(Error("TypeError", c_latitude))
    /\ UNCHANGED <<page, source, dirExists, disk, df, skipped, locations, stdout>>

LongitudeToNumeric ==
    /\ pc = "longitude"
    /\ IsSeries(df, c_longitude)
    /\ df' = CoerceColumn(df, c_longitude)
    /\ pc' = "category"
    /\ UNCHANGED <<page, source, dirExists, disk, skipped, locations, stdout, err>>

LongitudeToNumericRaises ==
    /\ pc = "longitude"
    /\ ~IsSeries(df, c_longitude)
    /\ Raise(Error("TypeError", c_longitude))
    /\ UNCHANGED <<page, source, dirExists, disk, df, skipped, locations, stdout>>

\* df["category"] = df["category"].astype(str).str.strip().str.upper()
CategoryStep ==
    /\ pc = "category"
    /\ IsSeries(df, c_category)
    /\ \E j \in { Positions(df, c_category)[1] } :
          df' = SetColumn(df, j, NormalizeCategory(Column(df, j)))
    /\ pc' = "dropna"
    /\ UNCHANGED <<page, source, dirExists, disk, skipped, locations, stdout, err>>

\* a DataFrame has no .str accessor: AttributeError
CategoryStepRaises ==
    /\ pc = "category"
    /\ ~IsSeries(df, c_category)
    /\ Raise(Error("AttributeError", c_category))
    /\ UNCHANGED <<page, source, dirExists, disk, df, skipped, locations, stdout>>

\* A count of the rows kept instead of the rows dropped.
SkippedCountKept(before, after) == after

\* skipped = before - len(df)
SkippedCount(before, after) == before - after

\* before = len(df); df.dropna(subset=["latitude", "longitude"], inplace=True);
\* skipped = before - len(df)
DropInvalid ==
    /\ pc = "dropna"
    /\ df' = dropna(df, <<c_latitude, c_longitude>>)
    /\ skipped' = SkippedCount(Len(df.data), Len(df'.data))
    /\ pc' = "report_skipped"
    /\ UNCHANGED <<page, source, dirExists, disk, locations, stdout, err>>

Line(kind, n) == [kind |-> kind, n |-> n]

\* if skipped: print(f"Skipped {skipped} invalid rows ...")
SkippedLines(n) == IF n # 0 THEN << Line("skipped", n) >> ELSE <<>>

ReportSkipped ==
    /\ pc = "report_skipped"
    /\ stdout' = stdout \o SkippedLines(skipped)
    /\ pc' = "project"
    /\ UNCHANGED <<page, source, dirExists, disk, df, skipped, locations, err>>

\* df = df[REQUIRED_COLUMNS]
ProjectStep ==
    /\ pc = "project"
    /\ df' = Project(df, REQUIRED_COLUMNS)
    /\ pc' = "to_dict"
    /\ UNCHANGED <<page, source, dirExists, disk, skipped, locations, stdout, err>>

\* locations = df.to_dict(orient="records")
ToDict ==
    /\ pc = "to_dict"
    /\ locations' = to_dict(df)
    /\ pc' = "write_json"
    /\ UNCHANGED <<page, source, dirExists, disk, df, skipped, stdout, err>>

\* A write that leaves a file that already exists as it is.
WriteFileSkipsExisting(f, data, next) ==
    /\ disk' = [disk EXCEPT ![f] = IF disk[f].gen = "absent" THEN File("new", data) ELSE disk[f]]
    /\ pc' = next
    /\ UNCHANGED <<page, source, dirExists, df, skipped, locations, stdout, err>>

\* with open(path, "w") as f: ...   (the file is overwritten in full)
WriteFile(f, data, next) ==
    /\ disk' = [disk EXCEPT ![f] = File("new", data)]
    /\ pc' = next
    /\ UNCHANGED <<page, source, dirExists, df, skipped, locations, stdout, err>>

WriteJson == pc = "write_json" /\ WriteFile(json_file, locations, "write_html")
WriteHtml == pc = "write_html" /\ WriteFile(html_file, <<>>, "write_js")
WriteJs   == pc = "write_js" /\ WriteFile(js_file, <<>>, "write_css")
WriteCss  == pc = "write_css" /\ WriteFile(css_file, <<>>, "summary")

\* the four closing print statements
Summary ==
    /\ pc = "summary"
    /\ stdout' = stdout \o << Line("success", 0), Line("directory", 0),
                              Line("count", Len(locations)), Line("files", 0) >>
    /\ pc' = "done"
    /\ UNCHANGED <<page, source, dirExists, disk, df, skipped, locations, err>>

Next ==
    \/ MkDir
    \/ ReadCsv
    \/ ReadCsvRaises
    \/ NormalizeColumnsStep
    \/ FillNa
    \/ CheckColumns
    \/ CheckColumnsRaises
    \/ LatitudeToNumeric
    \/ LatitudeToNumericRaises
    \/ LongitudeToNumeric
    \/ LongitudeToNumericRaises
    \/ CategoryStep
    \/ CategoryStepRaises
    \/ DropInvalid
    \/ ReportSkipped
    \/ ProjectStep
    \/ ToDict
    \/ WriteJson
    \/ WriteHtml
    \/ WriteJs
    \/ WriteCss
    \/ Summary

Spec == Init /\ [][Next]_vars

\* ------------------------------------------------------------- category sheets
\* Runs over one-row sheets with the required header and valid coordinates,
\* whose category cell ranges over every text of at most MaxCatLen characters
\* of CategoryAlphabet.  None of the raising steps is enabled on such a sheet.
Texts(n) == UNION { [1..m -> CategoryAlphabet] : m \in 0..n }

CategorySheets ==
    { MakeSheet(BaseHeader, << RowKind(<<"1","6">>, <<"7","8">>, cat, <<"a","b","c">>) >>) :
        cat \in Texts(MaxCatLen) }

InitCategory == InitWith(CategorySheets)

NextCategory ==
    \/ MkDir
    \/ ReadCsv
    \/ NormalizeColumnsStep
    \/ FillNa
    \/ CheckColumns
    \/ LatitudeToNumeric
    \/ LongitudeToNumeric
    \/ CategoryStep
    \/ DropInvalid
    \/ ReportSkipped
    \/ ProjectStep
    \/ ToDict
    \/ WriteJson
    \/ WriteHtml
    \/ WriteJs
    \/ WriteCss
    \/ Summary

SpecCategory == InitCategory /\ [][NextCategory]_vars

\* ------------------------------------------------------------- vocabulary of the properties
\* Labels of the source columns after trimming and lower-casing.
NormHeader == [j \in 1..Len(source.header) |-> lower(strip(source.header[j]))]

\* The normalized header nh holds every required name.
HasAll(nh) == \A k \in 1..Len(REQUIRED_COLUMNS) : InSeq(nh, REQUIRED_COLUMNS[k])

HeaderHasAll == HasAll(NormHeader)

\* The source column a record field is taken from: the last one carrying the
\* name (the only one, for a header without repeated names).
LastPos(nh, col) ==
    CHOOSE j \in 1..Len(nh) : nh[j] = col /\ \A j2 \in (j + 1)..Len(nh) : nh[j2] # col

\* The text of a coordinate cell is a number.
ValidCoord(text) == IsIntText(text)

\* Source row i (1-based) has a latitude or a longitude that is no number;
\* latp and lonp are the positions of the two columns.
InvalidRow(latp, lonp, i) ==
    ~ValidCoord(source.rows[i][latp]) \/ ~ValidCoord(source.rows[i][lonp])

\* The source rows with valid coordinates, in source order.
ValidRows(latp, lonp) ==
    SelectSeq([i \in 1..Len(source.rows) |-> i], LAMBDA i : ~InvalidRow(latp, lonp, i))

\* The sheet as loaded: typed values, the empty string for a missing cell.
Loaded ==
    LET d == read_csv(source)
    IN  [i \in 1..Len(d.data) |-> [j \in 1..Len(d.data[i]) |->
            IF isna(d.data[i][j]) THEN StrV(<<>>) ELSE d.data[i][j]]]

Dropped == {"report_skipped", "project", "to_dict"}
Emitted == {"write_json", "write_html", "write_js", "write_css", "summary", "done"}
BeforeCheck == {"mkdir", "read_csv", "normalize_columns", "fillna", "check_columns"}

NameAndDescriptionColumns == SubSeq(REQUIRED_COLUMNS, 1, 12)

HasExtraColumn ==
    \E j \in 1..Len(source.header) : ~InSeq(REQUIRED_COLUMNS, NormHeader[j])

NoNewFile == \A f \in OutputFiles : disk[f].gen # "new"
AllNewFiles == \A f \in OutputFiles : disk[f].gen = "new"

\* ------------------------------------------------------------- C1
\* C1: a sheet whose normalized header holds all 15 required names never
\* ends the run in a fatal error, whatever else the header and rows hold.
C1_RequiredHeaderSucceeds ==
    pc = "fatal" => ~(source.ok /\ HeaderHasAll)

\* ------------------------------------------------------------- C2
\* C2: when a required name is absent from the normalized header, the run
\* never gets past the column check, its only end is the fatal ValueError
\* naming a required column that is missing, and no output file is written.
C2_MissingColumnFatalNoOutput ==
    \/ pc \in BeforeCheck /\ NoNewFile /\ locations = <<>>
    \/ LET nh == NormHeader
       IN  (source.ok /\ ~HasAll(nh)) =>
               /\ pc = "fatal"
               /\ err.type = "ValueError"
               /\ InSeq(REQUIRED_COLUMNS, err.col)
               /\ ~InSeq(nh, err.col)
               /\ NoNewFile
               /\ locations = <<>>

C2_Witness ==
    /\ pc = "fatal"
    /\ err = Error("ValueError", c_description_ml)
    /\ source.ok /\ ~HeaderHasAll
    /\ Len(source.rows) = MaxRows
    /\ \A f \in OutputFiles : disk[f] = Old

\* ------------------------------------------------------------- C3
\* C3: in a run that emits, every record's latitude and longitude are
\* numbers, record k comes from a source row whose two coordinate cells are
\* numbers, and locations.json holds these records.
C3_CoordinatesNumeric ==
    pc \in Emitted =>
        LET nh == NormHeader
            latp == LastPos(nh, c_latitude)
            lonp == LastPos(nh, c_longitude)
        IN  /\ Len(locations) = Len(df.index)
            /\ \A k \in 1..Len(locations) :
                  /\ IsNumber(Get(locations[k], c_latitude))
                  /\ IsNumber(Get(locations[k], c_longitude))
                  /\ ~InvalidRow(latp, lonp, df.index[k] + 1)
            /\ disk[json_file].gen = "new" => disk[json_file].data = locations

C3_Witness ==
    /\ pc = "done"
    /\ Len(locations) = 1
    /\ Len(source.rows) = 2
    /\ LET nh == NormHeader
       IN  \E i \in 1..Len(source.rows) :
              /\ ~ValidCoord(source.rows[i][LastPos(nh, c_latitude)])
              /\ ValidCoord(source.rows[i][LastPos(nh, c_longitude)])
    /\ disk[json_file].data = locations

\* ------------------------------------------------------------- C4
\* C4: the records emitted number the source rows minus the rows with an
\* invalid latitude or longitude (a row with both invalid counts once), and
\* skipped, and the count printed, is that difference.
C4_RowDropAccounting ==
    pc \in Dropped \cup Emitted =>
        LET nh == NormHeader
            valid == ValidRows(LastPos(nh, c_latitude), LastPos(nh, c_longitude))
            ninvalid == Len(source.rows) - Len(valid)
        IN  /\ skipped = ninvalid
            /\ Len(df.data) = Len(source.rows) - ninvalid
            /\ pc \in Emitted => Len(locations) = Len(source.rows) - ninvalid
            /\ \A p \in 1..Len(stdout) :
                  stdout[p].kind = "skipped" => stdout[p].n = ninvalid
            /\ pc = "done" =>
                  \E p \in 1..Len(stdout) :
                      stdout[p] = Line("count", Len(source.rows) - ninvalid)

C4_Witness ==
    /\ pc = "done"
    /\ Len(source.rows) = 2
    /\ skipped = 1
    /\ Len(locations) = 1
    /\ LET nh == NormHeader
       IN  \E i \in 1..Len(source.rows) :
              /\ ~ValidCoord(source.rows[i][LastPos(nh, c_latitude)])
              /\ ~ValidCoord(source.rows[i][LastPos(nh, c_longitude)])
    /\ \E p \in 1..Len(stdout) : stdout[p] = Line("skipped", 1)

C6_ProjectionExact ==
    pc \in Emitted =>
        \A k \in 1..Len(locations) : Keys(locations[k]) = REQUIRED_COLUMNS

C6_Witness ==
    /\ pc = "done"
    /\ Len(locations) = MaxRows
    /\ Len(source.header) > Len(REQUIRED_COLUMNS)
    /\ source.header[Len(source.header) - 1] = c_display_name
    /\ HasExtraColumn

\* ------------------------------------------------------------- C7
\* C7: the emitted records are the source rows with valid coordinates, each
\* once, in source order: record k is source row valid[k].
C7_OrderPreserved ==
    pc \in Emitted =>
        LET nh == NormHeader
            valid == ValidRows(LastPos(nh, c_latitude), LastPos(nh, c_longitude))
            disp == LastPos(nh, c_display_name)
            loaded == Loaded
        IN  /\ Len(locations) = Len(valid)
            /\ df.index = [k \in 1..Len(valid) |-> valid[k] - 1]
            /\ \A k \in 1..Len(locations) :
                  Get(locations[k], c_display_name) = loaded[valid[k]][disp]

C7_Witness ==
    /\ pc = "done"
    /\ Len(source.rows) = MaxRows
    /\ Len(locations) >= 2
    /\ Get(locations[1], c_display_name) # Get(locations[2], c_display_name)

C9_NormalizationIdempotent ==
    pc \in {"dropna"} \cup Dropped \cup Emitted =>
        LET once == Column(df, Positions(df, c_category)[1])
        IN  NormalizeCategory(once) = once

C9_Witness ==
    /\ pc = "done"
    /\ source.rows[1][13] = <<" ", "a", " ">>
    /\ Get(locations[1], c_category) = StrV(<<"A">>)

\* ------------------------------------------------------------- C10
\* C10: with all required names in the header, rows with invalid coordinates
\* never abort the run: it never ends fatally, it ends with the four files
\* written and the summary printed, and it prints the skipped-rows line once,
\* with the number of dropped rows, exactly when a row was dropped.
C10_InvalidRowsNeverAbort ==
    /\ pc = "fatal" => ~(source.ok /\ HeaderHasAll)
    /\ pc = "done" =>
          LET nh == NormHeader
              valid == ValidRows(LastPos(nh, c_latitude), LastPos(nh, c_longitude))
              ninvalid == Len(source.rows) - Len(valid)
          IN  /\ AllNewFiles
              /\ \E p \in 1..Len(stdout) : stdout[p].kind = "success"
              /\ Cardinality({ p \in 1..Len(stdout) : stdout[p].kind = "skipped" })
                    = (IF ninvalid > 0 THEN 1 ELSE 0)
              /\ \A p \in 1..Len(stdout) :
                    stdout[p].kind = "skipped" => stdout[p].n = ninvalid

\* ------------------------------------------------------------- C11
\* C11: when the sheet cannot be fetched or parsed, the run ends at read_csv
\* in a fatal error, as a missing-column failure does: no statement after
\* read_csv is executed (no table, no records, nothing printed) and none of
\* the four files is written.
C11_UnreachableSourceFatal ==
    ~source.ok =>
        /\ pc \in {"mkdir", "read_csv", "fatal"}
        /\ pc = "fatal" => err.type = "ReadError"
        /\ pc # "fatal" => err = NoError
        /\ df = EmptyFrame
        /\ locations = <<>>
        /\ stdout = <<>>
        /\ skipped = 0
        /\ NoNewFile

C11_Witness ==
    /\ ~source.ok
    /\ pc = "fatal"
    /\ err.type = "ReadError"
    /\ dirExists
    /\ \A f \in OutputFiles : disk[f] = Old

\* ------------------------------------------------------------- C12
\* The order in which the run writes the four files.
WriteOrder == <<json_file, html_file, js_file, css_file>>

CoordColumns == { j \in 1..Len(df.columns) : df.columns[j] \in {c_latitude, c_longitude} }

\* C13: a missing latitude or longitude cell goes the way of an unparseable
\* one.  After fillna and before the coercion it is the empty string; after
\* the coercion of its column it is NaN, as is every cell that is no number;
\* after dropna a row with either coordinate missing is gone and counted in
\* skipped.
C13_BlankCoordinateDropped ==
    /\ pc \in {"check_columns", "latitude"} =>
          \A i \in 1..Len(df.data) : \A j \in CoordColumns :
              source.rows[i][j] \in NaTexts => df.data[i][j] = StrV(<<>>)
    /\ pc = "longitude" =>
          \A i \in 1..Len(df.data) : \A j \in CoordColumns :
              /\ df.columns[j] = c_latitude =>
                    (isna(df.data[i][j]) <=> ~ValidCoord(source.rows[i][j]))
              /\ (df.columns[j] = c_longitude /\ source.rows[i][j] \in NaTexts) =>
                    df.data[i][j] = StrV(<<>>)
    /\ pc \in {"category", "dropna"} =>
          \A i \in 1..Len(df.data) : \A j \in CoordColumns :
              isna(df.data[i][j]) <=> ~ValidCoord(source.rows[i][j])
    /\ pc \in Dropped \cup Emitted =>
          LET nh == NormHeader
              latp == LastPos(nh, c_latitude)
              lonp == LastPos(nh, c_longitude)
              gone == { i \in 1..Len(source.rows) : ~InSeq(df.index, i - 1) }
          IN  /\ \A i \in 1..Len(source.rows) :
                    (source.rows[i][latp] \in NaTexts \/ source.rows[i][lonp] \in NaTexts)
                        => i \in gone
              /\ gone = { i \in 1..Len(source.rows) : InvalidRow(latp, lonp, i) }
              /\ skipped = Cardinality(gone)

C13_Witness ==
    /\ pc = "done"
    /\ skipped = 2
    /\ locations = <<>>
    /\ LET nh == NormHeader
           latp == LastPos(nh, c_latitude)
           lonp == LastPos(nh, c_longitude)
       IN  /\ \E i \in 1..Len(source.rows) : source.rows[i][latp] = <<>>
           /\ \E i \in 1..Len(source.rows) :
                 ValidCoord(source.rows[i][latp]) /\ source.rows[i][lonp] \in NaTexts

\* ------------------------------------------------------------- C14
\* The script is straight-line code run by one interpreter: a statement that
\* can run does run.
FairSpec == Spec /\ WF_vars(Next)

\* The statements in program order.
StageOrder ==
    << "mkdir", "read_csv", "normalize_columns", "fillna", "check_columns",
       "latitude", "longitude", "category", "dropna", "report_skipped",
       "project", "to_dict", "write_json", "write_html", "write_js",
       "write_css", "summary", "done" >>

Terminal == {"done", "fatal"}

\* Position of a statement in program order; the two ends of a run share the
\* last position.
Rank(p) == IF p = "fatal" THEN Len(StageOrder) ELSE IndexOf(StageOrder, p)

\* The stage a statement belongs to: 1 fetch, 2 validate columns, 3 coerce
\* types, 4 drop invalid rows, 5 project, 6 emit, 7 the run is over.
StageOf(p) ==
    CASE p \in {"mkdir", "read_csv"} -> 1
      [] p \in {"normalize_columns", "fillna", "check_columns"} -> 2
      [] p \in {"latitude", "longitude", "category"} -> 3
      [] p \in {"dropna", "report_skipped"} -> 4
      [] p = "project" -> 5
      [] p \in {"to_dict", "write_json", "write_html", "write_js", "write_css", "summary"} -> 6
      [] OTHER -> 7

\* C14: a run is one forward pass that terminates.  Every step moves to a
\* later statement, so no statement and no stage is entered twice and the
\* stages come in the order fetch, validate, coerce, drop, project, emit;
\* nothing follows the end of a run; and every run reaches exactly one of
\* the two ends, "done" (success) or "fatal".
C14_SingleForwardPass ==
    /\ [][ /\ pc \notin Terminal
           /\ Rank(pc') > Rank(pc)
           /\ StageOf(pc') >= StageOf(pc)
           /\ (pc' = "fatal") = (err' # NoError) ]_vars
    /\ <>(pc \in Terminal)

C14_Witness ==
    /\ pc = "done"
    /\ AllNewFiles
    /\ err = NoError
    /\ Len(stdout) > 4

\* ------------------------------------------------------------- app.js
\* A JavaScript value: a string, a number, or undefined.
JsNum(n) == [t |-> "num", s |-> <<>>, n |-> n]
Undefined == [t |-> "undefined", s |-> <<>>, n |-> 0]

\* json.dump followed by res.json(): a str comes back as a string, an int or
\* a float as a number; NaN is written as the bare word NaN, which
\* res.json() rejects.
JsValue(v) == IF v.t = "str" THEN StrV(v.s) ELSE JsNum(v.n)
JsonParses(data) ==
    \A i \in 1..Len(data) : \A q \in 1..Len(data[i]) : ~isna(data[i][q].v)
FromJson(data) ==
    [i \in 1..Len(data) |->
        [q \in 1..Len(data[i]) |-> [k |-> data[i][q].k, v |-> JsValue(data[i][q].v)]]]

\* l[key]
Field(l, key) ==
    IF \E q \in 1..Len(l) : l[q].k = key THEN Get(l, key) ELSE Undefined

\* Whether a value counts as true in a condition or on the left of ||.
Truthy(v) == (v.t = "str" /\ v.s # <<>>) \/ (v.t = "num" /\ v.n # 0)

\* String.prototype.toLowerCase, trim, includes, replace(/_/g, " ")
toLowerCase(s) == [i \in 1..Len(s) |-> lowerChar(s[i])]
trim(s) == SubSeq(s, lstrip(s), rstrip(s))
includes(text, q) ==
    \E a \in 0..(Len(text) - Len(q)) : SubSeq(text, a + 1, a + Len(q)) = q
replaceUnderscores(s) == [i \in 1..Len(s) |-> IF s[i] = "_" THEN " " ELSE s[i]]

SARVA_DARSHANAM_ENTRANCE == <<"S","A","R","V","A"," ","D","A","R","S","H","A","N","A","M"," ","E","N","T","R","A","N","C","E">>

\* The six languages of the site, in the order of allLanguages.
allLanguages == << <<"e","n">>, <<"t","e">>, <<"h","i">>, <<"t","a">>, <<"k","n">>, <<"m","l">> >>
\* The languages the visitor picks in the model.
LangOptions == { <<"e","n">>, <<"t","e">> }

\* CATEGORY_LABELS[cat]?.[lang]: the English labels letter by letter; a label
\* in another script is one character that no typed query contains.
HasCategoryLabel(cat) ==
    cat \in { <<"T","E","M","P","L","E">>, <<"A","S","H","R","A","M">>, <<"A","C","C","O","M","M","O","D","A","T","I","O","N">>, <<"F","O","O","D">>, <<"F","A","C","I","L","I","T","Y">>, <<"T","R","A","N","S","P","O","R","T">>, <<"U","T","I","L","I","T","Y">>, <<"T","O","U","R","I","S","T","_","S","P","O","T">> }
EnglishLabel(cat) ==
    CASE cat = <<"T","E","M","P","L","E">> -> <<"T","e","m","p","l","e","s">>
    [] cat = <<"A","S","H","R","A","M">> -> <<"A","s","h","r","a","m","s"," ","/"," ","M","a","t","h","a","m","s">>
    [] cat = <<"A","C","C","O","M","M","O","D","A","T","I","O","N">> -> <<"A","c","c","o","m","m","o","d","a","t","i","o","n">>
    [] cat = <<"F","O","O","D">> -> <<"F","o","o","d">>
    [] cat = <<"F","A","C","I","L","I","T","Y">> -> <<"F","a","c","i","l","i","t","i","e","s">>
    [] cat = <<"T","R","A","N","S","P","O","R","T">> -> <<"T","r","a","n","s","p","o","r","t">>
    [] cat = <<"U","T","I","L","I","T","Y">> -> <<"U","t","i","l","i","t","i","e","s">>
    [] cat = <<"T","O","U","R","I","S","T","_","S","P","O","T">> -> <<"T","o","u","r","i","s","t"," ","S","p","o","t","s">>
CategoryLabel(cat, lang) ==
    IF lang = <<"e","n">> THEN EnglishLabel(cat) ELSE << "<" , lang[1], lang[2], ">" >>

name_(lang) == <<"n","a","m","e","_">> \o lang
description_(lang) == <<"d","e","s","c","r","i","p","t","i","o","n","_">> \o lang

\* The fields matchesSearch lower-cases, in the order it reads them.
SearchedFields ==
    <<c_display_name>> \o [a \in 1..6 |-> name_(allLanguages[a])]
                       \o [a \in 1..6 |-> description_(allLanguages[a])]

\* (l[key] || "").toLowerCase() is a TypeError when l[key] is a number other
\* than 0: numbers have no toLowerCase.
matchesSearchThrows(query, l) ==
    /\ query # <<>>
    /\ \E a \in 1..Len(SearchedFields) :
          Field(l, SearchedFields[a]).t = "num" /\ Truthy(Field(l, SearchedFields[a]))

\* (v || "").toLowerCase() + " "
Searchable(v) == (IF Truthy(v) THEN toLowerCase(v.s) ELSE <<>>) \o <<" ">>

searchableText(l) ==
    Searchable(Field(l, c_display_name))
    \o Flatten([a \in 1..6 |-> Searchable(Field(l, name_(allLanguages[a])))])
    \o Flatten([a \in 1..6 |->
          IF HasCategoryLabel(Field(l, c_category).s)
          THEN toLowerCase(CategoryLabel(Field(l, c_category).s, allLanguages[a])) \o <<" ">>
          ELSE <<>>])
    \o replaceUnderscores(Searchable(Field(l, c_category)))
    \o Flatten([a \in 1..6 |-> Searchable(Field(l, description_(allLanguages[a])))])

\* function matchesSearch(l), for a record it does not throw on
matchesSearch(query, l) ==
    IF query = <<>> THEN TRUE ELSE includes(searchableText(l), toLowerCase(query))

\* The elements of a set of numbers, smallest first.
Ascending(S) ==
    [a \in 1..Cardinality(S) |-> CHOOSE x \in S : Cardinality({ y \in S : y < x }) = a - 1]

\* An entrance that matches on the first word of the category only.
IsFreeLoose(l) ==
    /\ Field(l, c_category).t = "str"
    /\ Len(Field(l, c_category).s) >= 5
    /\ SubSeq(Field(l, c_category).s, 1, 5) = <<"S","A","R","V","A">>

\* l.category === "SARVA DARSHANAM ENTRANCE"
IsFree(l) == Field(l, c_category) = StrV(SARVA_DARSHANAM_ENTRANCE)

\* function updateStaticText()
updateStaticText(p) == [p EXCEPT !.staticLang = p.currentLang]

\* function renderFreeDarshan(): the button of the first free entrance, if
\* there is one (0: no button).
renderFreeDarshan(p) ==
    LET free == { i \in 1..Len(p.locationsData) : IsFree(p.locationsData[i]) }
    IN  [p EXCEPT !.freeBtn = IF free = {} THEN 0 ELSE Ascending(free)[1]]

\* grouped: the records that are no free entrance under their category, the
\* categories in the order they first occur (no category of the sheets is
\* an array index, so for-in follows insertion order).
Grouped(data) ==
    LET shown == { i \in 1..Len(data) : ~IsFree(data[i]) }
        cat(i) == Field(data[i], c_category).s
        firsts == Ascending({ i \in shown : \A q \in shown : q < i => cat(q) # cat(i) })
    IN  [ g \in 1..Len(firsts) |->
            [ cat |-> cat(firsts[g]),
              items |-> Ascending({ i \in shown : cat(i) = cat(firsts[g]) }) ] ]

\* function renderApp()
renderApp(p) ==
    [ renderFreeDarshan(p) EXCEPT
        !.sections = Grouped(p.locationsData),
        !.ulOpen = {},
        !.divOpen = {},
        !.appDisplay = "block",
        !.searchResultsDisplay = "none" ]

\* function renderSearchResults(): the list is emptied first, so a TypeError
\* of matchesSearch leaves it empty and the two views as they were.
renderSearchResults(p) ==
    LET shown == { i \in 1..Len(p.locationsData) : ~IsFree(p.locationsData[i]) }
    IN  IF \E i \in shown : matchesSearchThrows(p.searchQuery, p.locationsData[i])
        THEN [p EXCEPT !.searchList = <<>>, !.searchOpen = {}, !.uncaught = "TypeError"]
        ELSE [p EXCEPT
                !.searchList =
                    Ascending({ i \in shown : matchesSearch(p.searchQuery, p.locationsData[i]) }),
                !.searchOpen = {},
                !.appDisplay = "none",
                !.searchResultsDisplay = "block"]

\* .then(data => { ... }) of fetch("locations.json")
fetch_then(p, data) ==
    renderApp(updateStaticText(
        [p EXCEPT !.fetch = "done", !.locationsData = data, !.searchQuery = <<>>]))

\* the change listener of #lang
lang_change(p, value) ==
    LET q == updateStaticText([p EXCEPT !.currentLang = value])
    IN  IF q.searchQuery # <<>> THEN renderSearchResults(q) ELSE renderApp(q)

\* the input listener of #searchInput
searchInput_input(p, value) ==
    LET query == toLowerCase(trim(value))
        q == [p EXCEPT !.inputValue = value,
                       !.searchQuery = query,
                       !.clearDisplay = IF query # <<>> THEN "flex" ELSE "none",
                       !.heroDisplay = IF query # <<>> THEN "none" ELSE "block"]
    IN  IF query # <<>> THEN renderSearchResults(q) ELSE renderApp(q)

\* the click listener of #clearSearch
clearBtn_click(p) ==
    renderApp([p EXCEPT !.inputValue = <<>>,
                        !.searchQuery = <<>>,
                        !.clearDisplay = "none",
                        !.heroDisplay = "block"])

\* history.pushState: the entries after the current one are dropped, the new
\* entry becomes the current one.
pushState(p) ==
    [p EXCEPT !.historyIndex = p.historyIndex + 1, !.historyLen = p.historyIndex + 2]

\* A header click that leaves the other category lists as they are.
h_onclickKeepsOthers(p, g) ==
    IF g \notin p.ulOpen
    THEN pushState([p EXCEPT !.ulOpen = p.ulOpen \cup {g}])
    ELSE [p EXCEPT !.ulOpen = p.ulOpen \ {g}]

\* h.onclick of the g-th category
h_onclick(p, g) ==
    IF g \notin p.ulOpen
    THEN pushState([p EXCEPT !.ulOpen = {g}, !.divOpen = {}])
    ELSE [p EXCEPT !.ulOpen = {}, !.divOpen = {}]

\* The category list that holds the entry of record i.
GroupOf(p, i) == CHOOSE g \in 1..Len(p.sections) : InSeq(p.sections[g].items, i)

\* name.onclick of the entry of record i in the browse view
name_onclick(p, i) ==
    LET inList == { p.sections[GroupOf(p, i)].items[a] :
                        a \in 1..Len(p.sections[GroupOf(p, i)].items) }
    IN  IF i \notin p.divOpen
        THEN pushState([p EXCEPT !.divOpen = (p.divOpen \ inList) \cup {i}])
        ELSE [p EXCEPT !.divOpen = p.divOpen \ inList]

\* name.onclick of the entry of record i in the search results
searchName_onclick(p, i) ==
    [p EXCEPT !.searchOpen = IF i \in p.searchOpen THEN {} ELSE {i}]

\* The records of #app in document order.
DocumentOrder(p) == Flatten([g \in 1..Len(p.sections) |-> p.sections[g].items])

\* A popstate listener that closes the panel and its list at once.
popstateClosesAll(p) == [p EXCEPT !.ulOpen = {}, !.divOpen = {}]

\* the popstate listener: querySelector takes the first match in document
\* order.
popstate(p) ==
    IF p.divOpen # {}
    THEN [p EXCEPT !.divOpen =
             p.divOpen \ { DocumentOrder(p)[CHOOSE a \in 1..Len(DocumentOrder(p)) :
                              /\ DocumentOrder(p)[a] \in p.divOpen
                              /\ \A b \in 1..(a - 1) : DocumentOrder(p)[b] \notin p.divOpen] }]
    ELSE IF p.ulOpen # {}
    THEN [p EXCEPT !.ulOpen = p.ulOpen \ { Ascending(p.ulOpen)[1] }]
    ELSE p

\* ------------------------------------------------------------- the site
\* Rows of the sheets the site is built from: a free entrance as an editor
\* types it, a misspelt one, a temple whose texts are numerals (numbers in
\* locations.json unless another row of the sheet has a text there).
AppRowKinds ==
    { RowKind(<<"1","6">>, <<"7","8">>, <<" ","s","a","r","v","a"," ","d","a","r","s","h","a","n","a","m"," ","e","n","t","r","a","n","c","e"," ">>, <<"g","a","t","e">>),
      RowKind(<<"1","6">>, <<"7","8">>, <<"S","A","R","V","A"," ","D","A","R","S","H","A","N"," ","E","N","T","R","A","N","C","E">>, <<"g","a","t","e">>),
      RowKind(<<"1","6">>, <<"7","8">>, <<"t","e","m","p","l","e">>, <<"0","7">>) }

AppSheets ==
    { MakeSheet(BaseHeader, rks) : rks \in UNION { [1..n -> AppRowKinds] : n \in 0..MaxLocations } }

\* What the visitor types into the search box.
TypedValues == { <<>>, <<" ">>, <<"G","a","t","e"," ">>, <<"p","2">> }

runVars == <<pc, source, dirExists, disk, df, skipped, locations, stdout, err>>

\* The page is served once the run that builds it is over.
Served == pc = "done"

\* A handler starts with no exception pending.
Handling == [page EXCEPT !.uncaught = ""]

\* locations.json arrives and parses.
FetchDone ==
    /\ Served
    /\ page.fetch = "pending"
    /\ JsonParses(disk[json_file].data)
    /\ page' = fetch_then(Handling, FromJson(disk[json_file].data))
    /\ UNCHANGED runVars

\* The request fails, or res.json() rejects: .catch logs the error.
FetchFails ==
    /\ Served
    /\ page.fetch = "pending"
    /\ page' = [page EXCEPT !.fetch = "failed"]
    /\ UNCHANGED runVars

LangChange ==
    /\ Served
    /\ \E value \in LangOptions \ {page.currentLang} :
          page' = lang_change(Handling, value)
    /\ UNCHANGED runVars

SearchInput ==
    /\ Served
    /\ \E value \in TypedValues \ {page.inputValue} :
          page' = searchInput_input(Handling, value)
    /\ UNCHANGED runVars

ClearClick ==
    /\ Served
    /\ page.clearDisplay # "none"
    /\ page' = clearBtn_click(Handling)
    /\ UNCHANGED runVars

\* A click on a category header; a click that opens pushes a history entry.
CategoryClick ==
    /\ Served
    /\ page.appDisplay # "none"
    /\ \E g \in 1..Len(page.sections) :
          /\ g \notin page.ulOpen => page.historyIndex < MaxHistory
          /\ page' = h_onclick(Handling, g)
    /\ UNCHANGED runVars

\* A click on a location name of a displayed category list.
NameClick ==
    /\ Served
    /\ page.appDisplay # "none"
    /\ \E g \in page.ulOpen : \E a \in 1..Len(page.sections[g].items) :
          /\ page.sections[g].items[a] \notin page.divOpen => page.historyIndex < MaxHistory
          /\ page' = name_onclick(Handling, page.sections[g].items[a])
    /\ UNCHANGED runVars

SearchNameClick ==
    /\ Served
    /\ page.searchResultsDisplay = "block"
    /\ \E a \in 1..Len(page.searchList) :
          page' = searchName_onclick(Handling, page.searchList[a])
    /\ UNCHANGED runVars

\* The visitor goes back one history entry of the page: popstate fires.
Back ==
    /\ Served
    /\ page.historyIndex > 0
    /\ page' = popstate([Handling EXCEPT !.historyIndex = page.historyIndex - 1])
    /\ UNCHANGED runVars

\* The visitor goes forward one history entry: popstate fires as well.
Forward ==
    /\ Served
    /\ page.historyIndex < page.historyLen - 1
    /\ page' = popstate([Handling EXCEPT !.historyIndex = page.historyIndex + 1])
    /\ UNCHANGED runVars

InitApp == InitWith(AppSheets)

NextApp ==
    \/ MkDir
    \/ ReadCsv
    \/ NormalizeColumnsStep
    \/ FillNa
    \/ CheckColumns
    \/ LatitudeToNumeric
    \/ LongitudeToNumeric
    \/ CategoryStep
    \/ DropInvalid
    \/ ReportSkipped
    \/ ProjectStep
    \/ ToDict
    \/ WriteJson
    \/ WriteHtml
    \/ WriteJs
    \/ WriteCss
    \/ Summary
    \/ FetchDone
    \/ FetchFails
    \/ LangChange
    \/ SearchInput
    \/ ClearClick
    \/ CategoryClick
    \/ NameClick
    \/ SearchNameClick
    \/ Back
    \/ Forward

SpecApp == InitApp /\ [][NextApp]_vars

\* ------------------------------------------------------------- C15
\* C15: once locations.json is loaded, the records whose category is exactly
\* "SARVA DARSHANAM ENTRANCE" are in no category list and in no search
\* result, whatever the query; the standalone button is that of the first of
\* them, and there is none without them; every other record, a misspelt
\* entrance included, is an entry of the list of its own category; the
\* displayed search results are the other records that match the query; and
\* an exception is never due to a category.
C15_FreeEntranceExactMatch ==
    page.fetch = "done" =>
        LET data == page.locationsData
            category(i) == Field(data[i], c_category).s
            entrances == { i \in 1..Len(data) : category(i) = SARVA_DARSHANAM_ENTRANCE }
            others == (1..Len(data)) \ entrances
            listed == { page.searchList[a] : a \in 1..Len(page.searchList) }
        IN  /\ IF entrances = {} THEN page.freeBtn = 0
               ELSE page.freeBtn \in entrances /\ \A i \in entrances : page.freeBtn <= i
            /\ \A g \in 1..Len(page.sections) :
                  /\ page.sections[g].cat # SARVA_DARSHANAM_ENTRANCE
                  /\ \A a \in 1..Len(page.sections[g].items) :
                        /\ page.sections[g].items[a] \in others
                        /\ category(page.sections[g].items[a]) = page.sections[g].cat
            /\ \A i \in others :
                  \E g \in 1..Len(page.sections) :
                      page.sections[g].cat = category(i) /\ InSeq(page.sections[g].items, i)
            /\ listed \cap entrances = {}
            /\ page.searchResultsDisplay = "block" =>
                  listed = { i \in others : matchesSearch(page.searchQuery, data[i]) }
            /\ page.uncaught # "" =>
                  \E i \in others : \E a \in 1..Len(SearchedFields) :
                      Field(data[i], SearchedFields[a]).t = "num"

C15_Witness ==
    /\ page.fetch = "done"
    /\ Len(page.locationsData) = 2
    /\ \A i \in 1..2 :
          Field(page.locationsData[i], c_category) = StrV(SARVA_DARSHANAM_ENTRANCE)
    /\ page.freeBtn = 1
    /\ page.searchQuery = <<"g","a","t","e">>
    /\ page.searchResultsDisplay = "block"
    /\ page.searchList = <<>>

\* ------------------------------------------------------------- C16
\* C16: a popstate event with a details panel open closes the panel and
\* leaves the category lists as they are, the panel's own list open; with no
\* panel but a list open it closes the list; with nothing open it changes
\* nothing.  A panel is open only inside an open list and with two history
\* entries to go back, so two back-navigations collapse the view: the first
\* closes the panel, the second the list.
C16_PopstateClosesInnermost ==
    /\ [](page.divOpen # {} => (page.ulOpen # {} /\ page.historyIndex >= 2))
    /\ [][ (Back \/ Forward) =>
             /\ page.divOpen # {} =>
                   /\ page'.divOpen = {}
                   /\ page'.ulOpen = page.ulOpen
                   /\ \A i \in page.divOpen : GroupOf(page, i) \in page'.ulOpen
             /\ (page.divOpen = {} /\ page.ulOpen # {}) =>
                   (page'.ulOpen = {} /\ page'.divOpen = {})
             /\ (page.divOpen = {} /\ page.ulOpen = {}) =>
                   page' = [page EXCEPT !.historyIndex = page'.historyIndex, !.uncaught = ""]
             /\ page'.sections = page.sections
             /\ page'.appDisplay = page.appDisplay ]_vars

C16_Witness ==
    /\ page.appDisplay # "none"
    /\ page.historyLen = 3
    /\ page.historyIndex = 1
    /\ page.ulOpen # {}
    /\ page.divOpen = {}

\* ------------------------------------------------------------- C17
\* C17: at most one category list is displayed, at most one details panel is
\* displayed, and a displayed panel is in the displayed list.
C17_AtMostOneOpen ==
    /\ Cardinality(page.ulOpen) <= 1
    /\ Cardinality(page.divOpen) <= 1
    /\ \A i \in page.divOpen : GroupOf(page, i) \in page.ulOpen

C17_Witness ==
    /\ Len(page.sections) = 2
    /\ page.ulOpen = {2}
    /\ page.divOpen # {}
    /\ page.historyIndex = 3

\* ------------------------------------------------------------- C18
\* C18: the clear button is displayed, the hero image hidden, the search
\* results displayed and the browse view hidden exactly when searchQuery is
\* not empty.
C18_DisplayFollowsQuery ==
    Served =>
        /\ (page.clearDisplay # "none") <=> (page.searchQuery # <<>>)
        /\ (page.heroDisplay = "none") <=> (page.searchQuery # <<>>)
        /\ (page.searchResultsDisplay # "none") <=> (page.searchQuery # <<>>)
        /\ (page.appDisplay = "none") <=> (page.searchQuery # <<>>)

====
